---- MODULE Spec2Model ----
(***************************************************************************)
(* JurisScope frontend: the citation renumbering of ChatInterface's        *)
(* handleSendMessage, the /api/qa proxy and the chat around it, and the    *)
(* batch-analyze / custom-column submission routes.                        *)
(*                                                                         *)
(* An answer text is a sequence of tokens.  A token is either a piece of   *)
(* plain text (anything citationPattern does not match) or a bracket group *)
(* "[n(,\s*n)*]": the integers it lists (after parseInt) and the number of *)
(* blanks that follow each comma.  The rewritten groups are joined with    *)
(* ", ", so they carry one blank.                                          *)
(***************************************************************************)
EXTENDS Integers, Sequences, FiniteSets, TLC

\* ------------------------------------------------------------------ bounds
MaxNums == 3        \* integers cited by one backend answer, over all its groups
MaxCitations == 2   \* length of data.citations

MaxRequests == 2    \* questions sent in one chat session
MaxDocs == 2        \* documents the backend lists for a project
MaxSubmissions == 2  \* calls of the batch-analyze / custom-column routes
MaxJobs == 1        \* jobs submitted to the job manager
MaxWorkers == 2     \* documents of one job the worker processes at a time
MaxCandidates == 3  \* candidates the hybrid search hands to the reranker
MaxPolls == 2       \* polls of the discovery job in flight at a time
MaxColumns == 2     \* custom columns added on the table page
MaxColumnPolls == 1  \* ticks of the custom-column poll intervals
MaxPathLen == 3      \* characters of a folder path
MaxFiles == 2        \* files of one upload

MaxTokens == MaxNums          \* tokens of one backend answer

\* ----------------------------------------------------------------- helpers
SeqsUpTo(S, n) == UNION {[1..k -> S] : k \in 0..n}

Range(s) == {s[i] : i \in 1..Len(s)}

\* JS array read arr[i] (0-based): undefined outside the array.
Undefined == [doc_id |-> 0]
ArrayGet(arr, i) == IF i + 1 \in 1..Len(arr) THEN arr[i + 1] ELSE Undefined

\* ------------------------------------------------------------- answer text
PlainToken == [kind |-> "text", nums |-> <<>>, sp |-> 1]
GroupToken(nums, sp) == [kind |-> "cite", nums |-> nums, sp |-> sp]

\* The integers of an answer: 0, the positions of the n citations, and n + 1
\* (which stands for every position past the end of the list).
CitedIndices(n) == 0..(n + 1)

\* The integers of all bracket groups of an answer, in reading order.
RECURSIVE Flatten(_)
Flatten(groups) ==
  IF groups = <<>> THEN <<>> ELSE Head(groups).nums \o Flatten(Tail(groups))

\* The tokens an answer over n citations may go on with when it may still cite
\* budget integers.  A single integer has no comma, so no blanks to choose.
Tokens(n, budget) ==
  {PlainToken}
    \cup {GroupToken(<<x>>, 1) : x \in {y \in CitedIndices(n) : budget >= 1}}
    \cup {GroupToken(s, sp) :
            s \in SeqsUpTo(CitedIndices(n), budget) \ SeqsUpTo(CitedIndices(n), 1),
            sp \in 0..1}

\* data.citations: the backend's citation list, one distinct chunk per position.
CitationLists == {[i \in 1..n |-> [doc_id |-> i]] : n \in 0..MaxCitations}

\* ------------------------------------------------ handleSendMessage, 383-434
\* [...data.answer.matchAll(citationPattern)]: the bracket groups, in order.
matches(answer) == SelectSeq(answer, LAMBDA t : t.kind = "cite")

\* Insertion order of a Set / Map built by adding the elements of s in order.
RECURSIVE InsertionOrder(_)
InsertionOrder(s) ==
  IF s = <<>> THEN <<>>
  ELSE LET front == InsertionOrder(SubSeq(s, 1, Len(s) - 1))
           last  == s[Len(s)]
       IN  IF last \in Range(front) THEN front ELSE Append(front, last)

\* citationOrder after the loop of lines 393-401: every integer met, valid or
\* not, is pushed the first time citationMap does not have it.
CitationOrderSorted(ms) ==
  LET S == Range(Flatten(ms))
      RECURSIVE Asc(_)
      Asc(T) == IF T = {} THEN <<>>
                ELSE LET m == CHOOSE x \in T : \A y \in T : x <= y
                     IN  <<m>> \o Asc(T \ {m})
  IN  Asc(S)

CitationOrder(ms) == InsertionOrder(Flatten(ms))

\* citationMap.get(oldNum): the position of oldNum in citationOrder
\* (nextNumber starts at 1), 0 standing for undefined.
citationMapGet(order, oldNum) ==
  IF oldNum \in Range(order)
  THEN CHOOSE n \in 1..Len(order) : order[n] = oldNum
  ELSE 0

\* newNumbers.sort((a, b) => a - b)
RECURSIVE SortAsc(_)
SortAsc(s) ==
  IF s = <<>> THEN <<>>
  ELSE LET m == CHOOSE i \in 1..Len(s) : \A j \in 1..Len(s) : s[i] <= s[j]
       IN  <<s[m]>> \o SortAsc(SubSeq(s, 1, m - 1) \o SubSeq(s, m + 1, Len(s)))

\* The replace callback of lines 405-416 on one bracket group.
NewNumbers(order, g) ==
  LET uniqueOldNumbers == InsertionOrder(g.nums)
      mapped == [i \in 1..Len(uniqueOldNumbers) |->
                   citationMapGet(order, uniqueOldNumbers[i])]
  IN  SelectSeq(mapped, LAMBDA n : n # 0)

ReplaceGroupUnsorted(order, g) == GroupToken(NewNumbers(order, g), 1)

ReplaceGroup(order, g) == GroupToken(SortAsc(NewNumbers(order, g)), 1)

\* processedContent.replace(citationPattern, ...): plain text is kept.
ProcessedContent(answer, order) ==
  [i \in 1..Len(answer) |->
     IF answer[i].kind = "cite" THEN ReplaceGroup(order, answer[i]) ELSE answer[i]]

\* citationOrder.map(...).filter(ref => ref !== null), lines 420-434.
BuildReference(order, citations, index) ==
  LET oldNum == order[index + 1]
      backendIndex == oldNum - 1
      cite == ArrayGet(citations, backendIndex)
  IN  [index |-> index, documentId |-> cite.doc_id]

ReorderedReferencesNoFilter(order, citations) ==
  [k \in 1..Len(order) |-> BuildReference(order, citations, k - 1)]

ReorderedReferencesOffByOne(order, citations) ==
  SelectSeq([k \in 1..Len(order) |->
               [index |-> k - 1, documentId |-> ArrayGet(citations, order[k]).doc_id]],
            LAMBDA ref : ref.documentId # Undefined.doc_id)

ReorderedReferencesAllWhenNone(order, citations) ==
  IF order = <<>>
  THEN [k \in 1..Len(citations) |-> [index |-> k - 1, documentId |-> citations[k].doc_id]]
  ELSE SelectSeq([k \in 1..Len(order) |-> BuildReference(order, citations, k - 1)],
                 LAMBDA ref : ref.documentId # Undefined.doc_id)

ReorderedReferences(order, citations) ==
  SelectSeq([k \in 1..Len(order) |-> BuildReference(order, citations, k - 1)],
            LAMBDA ref : ref.documentId # Undefined.doc_id)

\* assistantMessage, lines 439-445: references is undefined for an empty list.
\* Absent references are rendered as [defined |-> FALSE].
AssistantMessage(content, refs) ==
  [role |-> "assistant", content |-> content,
   references |-> [defined |-> Len(refs) > 0, list |-> refs]]

\* CitationText, lines 231-236: marker refNumber shows references[refNumber - 1].
\* A marker without a reference renders nothing.
NoReference == [index |-> 0, documentId |-> 0]
Resolve(references, refNumber) ==
  IF refNumber - 1 + 1 \in 1..Len(references) THEN references[refNumber - 1 + 1]
  ELSE NoReference

\* ------------------------------------------------------------------- state
VARIABLES
  data,                 \* the parsed /api/qa response {answer, citations}
  npc,                  \* "generating", then "fetched" (line 374), then "done"
  citationOrder,
  processedContent,
  reorderedReferences,
  assistantMessage,
  \* ChatInterface component state and the /api/qa requests it has started
  messages,             \* useState<Message[]>([])
  inputValue,           \* useState("")
  isTyping,             \* useState(false)
  requests,             \* one record per call of handleSendMessage that passed line 341
  \* batch-analyze / custom-column route and the backend behind it
  route,                \* the route invocation being served
  submissions,          \* invocations started so far
  backendPosts,         \* POSTs to the backend's job endpoints not yet answered
  jobs,                 \* jobs the backend has created; job_id is the position
  \* the backend's job worker
  tasks,                \* per job, the target documents being processed right now
  \* GET /api/table/results/[vaultId]
  resultsRoute,         \* the route invocation being served
  \* the search agent's legal_search tool
  search,               \* the call being served
  \* TableReview component state
  analysisJob,          \* useState<AnalysisJob | null>(null)
  isAnalyzing,          \* useState(false)
  columns,              \* useState<Column[]>([]), a column given by its id
  customColumnJobs,     \* useState<Map<string, string>>: jobId -> columnName
  documentRows,         \* useState<DocumentRow[]>([]), the documents state
  calls,                \* fetches of the page that are in flight
  timers,               \* the intervals of pollCustomColumnJob that run
  pollClosure,          \* customColumnJobs as the polling effect's closure holds it
  ticks,                \* interval ticks so far
  \* the vault's server actions (createFolder, uploadFilesToVault)
  folders,              \* the rows of the Folder table of the vault
  folderCall,           \* the last call of createFolder and what it returned
  upload                \* the last call of uploadFilesToVault and what it returned

normVars == <<data, npc, citationOrder, processedContent, reorderedReferences,
              assistantMessage>>

chatVars == <<messages, inputValue, isTyping, requests>>

routeVars == <<route, submissions, backendPosts, jobs>>

workerVars == <<tasks>>

resultsVars == <<resultsRoute>>

searchVars == <<search>>

tableVars == <<analysisJob, isAnalyzing, columns, customColumnJobs, documentRows,
               calls, timers, pollClosure, ticks>>

vaultVars == <<folders, folderCall, upload>>

restVars == <<workerVars, resultsVars, searchVars, tableVars, vaultVars>>

vars == <<normVars, chatVars, routeVars, restVars>>

NormIdle ==
  /\ data = [answer |-> <<>>, citations |-> <<>>]
  /\ npc = "generating"
  /\ citationOrder = <<>>
  /\ processedContent = <<>>
  /\ reorderedReferences = <<>>
  /\ assistantMessage = AssistantMessage(<<>>, <<>>)

ChatIdle ==
  /\ messages = <<>>
  /\ inputValue = ""
  /\ isTyping = FALSE
  /\ requests = <<>>

NoJobResponse == [status |-> 0, job_id |-> 0]
IdleRoute ==
  [pc |-> "idle", kind |-> "none", vault_id |-> "", projectId |-> "",
   fetch |-> "none", documents |-> <<>>, posted |-> FALSE, response |-> NoJobResponse]

RouteIdle ==
  /\ route = IdleRoute
  /\ submissions = 0
  /\ backendPosts = <<>>
  /\ jobs = <<>>

WorkerIdle == tasks = {}

NoFetch == [outcome |-> "none", list |-> <<>>]
NoRowsResponse == [status |-> 0, rows |-> <<>>]
IdleResults ==
  [pc |-> "idle", vaultId |-> "", projectId |-> "", resultsId |-> "",
   docFetch |-> NoFetch, anFetch |-> NoFetch, documents |-> <<>>,
   response |-> NoRowsResponse]

ResultsIdle == resultsRoute = IdleResults

NoRerank == [reachable |-> FALSE, scores |-> <<>>]
IdleSearch ==
  [pc |-> "idle", k |-> 0, results |-> <<>>, rerank |-> NoRerank, returned |-> <<>>]

SearchIdle == search = IdleSearch

\* null, and the body of an error answer, whose job fields are undefined.
NoJobBody ==
  [isJob |-> FALSE, job_id |-> 0, status |-> "null", progress |-> 0,
   processed_docs |-> 0, total_docs |-> 0]
ErrorBody == [NoJobBody EXCEPT !.status = "undefined"]

TableUnmounted ==
  /\ analysisJob = NoJobBody
  /\ isAnalyzing = FALSE
  /\ columns = <<>>
  /\ customColumnJobs = {}
  /\ documentRows = <<>>
  /\ calls = {}
  /\ timers = {}
  /\ pollClosure = {}
  /\ ticks = 0

\* a row's id is a value no other row has: the row's path and the number of
\* the copy of that path it is
NoId == <<<<>>, 0>>

NullFolder ==
  [exists |-> FALSE, id |-> NoId, name |-> <<>>, path |-> <<>>,
   parentFolderId |-> NoId, depth |-> 0]

NoFolderCall ==
  [called |-> FALSE, folderPath |-> <<>>, authenticated |-> FALSE,
   throwsAfter |-> -1, status |-> 0, data |-> NullFolder]

NoUpload ==
  [called |-> FALSE, pc |-> "idle", files |-> <<>>, happened |-> <<>>,
   results |-> <<>>, status |-> 0]

VaultIdle ==
  /\ folders = {}
  /\ folderCall = NoFolderCall
  /\ upload = NoUpload

RestIdle == WorkerIdle /\ ResultsIdle /\ SearchIdle /\ TableUnmounted /\ VaultIdle

NormInit ==
  /\ data \in [answer : {<<>>}, citations : CitationLists]
  /\ npc = "generating"
  /\ citationOrder = <<>>
  /\ processedContent = <<>>
  /\ reorderedReferences = <<>>
  /\ assistantMessage = AssistantMessage(<<>>, <<>>)
  /\ ChatIdle
  /\ RouteIdle
  /\ RestIdle

\* The backend's answer generator writes one more token of data.answer.
GenerateToken ==
  /\ npc = "generating"
  /\ Len(data.answer) < MaxTokens
  /\ \E t \in Tokens(Len(data.citations), MaxNums - Len(Flatten(data.answer))) :
       data' = [data EXCEPT !.answer = Append(@, t)]
  /\ UNCHANGED <<npc, citationOrder, processedContent, reorderedReferences,
                 assistantMessage, chatVars, routeVars, restVars>>

\* const data = await response.json(), line 374.
ReceiveData ==
  /\ npc = "generating"
  /\ npc' = "fetched"
  /\ UNCHANGED <<data, citationOrder, processedContent, reorderedReferences,
                 assistantMessage, chatVars, routeVars, restVars>>

\* Lines 380-445 of handleSendMessage on one response.
ProcessCitations ==
  /\ npc = "fetched"
  /\ LET order == CitationOrder(matches(data.answer))
         content == ProcessedContent(data.answer, order)
         refs == ReorderedReferences(order, data.citations)
     IN  /\ citationOrder' = order
         /\ processedContent' = content
         /\ reorderedReferences' = refs
         /\ assistantMessage' = AssistantMessage(content, refs)
  /\ npc' = "done"
  /\ UNCHANGED <<data, chatVars, routeVars, restVars>>

NormNext == GenerateToken \/ ReceiveData \/ ProcessCitations

SpecNorm == NormInit /\ [][NormNext]_vars

\* ------------------------------------------------------------ /api/qa proxy
\* Bodies the backend's /api/ask may answer with status 200: an answer that
\* cites [2, 1] then [3] over two citations, an answer without citations, and
\* a JSON body without an answer field.
ChatPayloads ==
  { [hasAnswer |-> TRUE,
     answer |-> <<PlainToken, GroupToken(<<2, 1>>, 0), GroupToken(<<3>>, 1)>>,
     citations |-> <<[doc_id |-> 1], [doc_id |-> 2]>>],
    [hasAnswer |-> TRUE, answer |-> <<PlainToken>>, citations |-> <<>>],
    [hasAnswer |-> FALSE, answer |-> <<>>, citations |-> <<>>] }
NoPayload == [hasAnswer |-> FALSE, answer |-> <<>>, citations |-> <<>>]

\* What the backend does with POST /api/ask: a status and a body, a body that
\* is not JSON, or no connection at all.
BackendOutcomes ==
  {[kind |-> "status", status |-> 200, data |-> d] : d \in ChatPayloads}
    \cup {[kind |-> "status", status |-> st, data |-> NoPayload] : st \in {404, 500, 503}}
    \cup {[kind |-> "notjson", status |-> 200, data |-> NoPayload],
          [kind |-> "unreachable", status |-> 0, data |-> NoPayload]}

ResponseOk(status) == status >= 200 /\ status <= 299

\* POST of src/frontend/src/app/api/qa/route.ts on one backend outcome.
QaProxyResponse(b) ==
  IF b.kind = "status" /\ ~ResponseOk(b.status)
  THEN [status |-> b.status, data |-> NoPayload]          \* lines 18-25
  ELSE IF b.kind = "status"
  THEN [status |-> 200, data |-> b.data]                  \* lines 27-28
  ELSE [status |-> 500, data |-> NoPayload]               \* lines 29-35

\* ------------------------------------------------------------ ChatInterface
Trim(v) == IF v = " " THEN "" ELSE v
InputValues == {"", " ", "q"}

UserMessage(r) ==
  [role |-> "user", kind |-> "query", content |-> <<>>,
   references |-> [defined |-> FALSE, list |-> <<>>], req |-> r]
AnswerMessage(r, content, refs) ==
  [role |-> "assistant", kind |-> "answer", content |-> content,
   references |-> AssistantMessage(content, refs).references, req |-> r]
ErrorMessage(r) ==
  [role |-> "assistant", kind |-> "error", content |-> <<>>,
   references |-> [defined |-> FALSE, list |-> <<>>], req |-> r]

NoResponse == [status |-> 0, data |-> NoPayload]
NoBackend == [kind |-> "none", status |-> 0, data |-> NoPayload]

\* onChange of the Textarea, lines 701-708.
TypeInput ==
  /\ \E v \in InputValues : inputValue' = v
  /\ UNCHANGED <<messages, isTyping, requests, normVars, routeVars, restVars>>

\* handleSendMessage up to the fetch, lines 340-368.
StartRequest ==
  /\ Trim(inputValue) # ""
  /\ Len(requests) < MaxRequests
  /\ messages' = Append(messages, UserMessage(Len(requests) + 1))
  /\ inputValue' = ""
  /\ isTyping' = TRUE
  /\ requests' = Append(requests,
       [stage |-> "sent", backend |-> NoBackend, response |-> NoResponse,
        storageThrew |-> FALSE])

\* onClick of the send Button, disabled by line 719.
ClickSend ==
  /\ ~(Trim(inputValue) = "" \/ isTyping)
  /\ StartRequest
  /\ UNCHANGED <<normVars, routeVars, restVars>>

\* handleKeyDown, lines 525-530: Enter without Shift calls handleSendMessage.
PressEnter ==
  /\ StartRequest
  /\ UNCHANGED <<normVars, routeVars, restVars>>

\* The proxy route runs for a request and the backend answers it.
QaProxy(r) ==
  /\ requests[r].stage = "sent"
  /\ \E b \in BackendOutcomes :
       requests' = [requests EXCEPT ![r].stage = "answered",
                                    ![r].backend = b,
                                    ![r].response = QaProxyResponse(b)]
  /\ UNCHANGED <<messages, inputValue, isTyping, normVars, routeVars, restVars>>

\* The catch block, lines 494-519, on the message list it finds: the write of
\* lastError comes first and the error message after it.
CatchBlock(msgs, r, storageThrows) ==
  IF storageThrows THEN msgs ELSE Append(msgs, ErrorMessage(r))

\* The rest of handleSendMessage once the fetch settles, lines 370-522.
\* The fetch itself may reject (netFail); the localStorage calls of the try
\* block (tryThrows) and of the catch block (catchThrows) may throw.
HandleResponse(r) ==
  /\ requests[r].stage = "answered"
  /\ \E netFail, tryThrows, catchThrows \in BOOLEAN :
       LET resp == requests[r].response
           order == CitationOrder(matches(resp.data.answer))
           content == ProcessedContent(resp.data.answer, order)
           refs == ReorderedReferences(order, resp.data.citations)
           shown == Append(messages, AnswerMessage(r, content, refs))
       IN  /\ messages' =
                IF netFail \/ ~ResponseOk(resp.status) \/ ~resp.data.hasAnswer
                THEN CatchBlock(messages, r, catchThrows)
                ELSE IF tryThrows THEN CatchBlock(shown, r, catchThrows)
                ELSE shown
           /\ requests' = [requests EXCEPT
                ![r].stage = "done",
                ![r].storageThrew =
                   IF netFail \/ ~ResponseOk(resp.status) \/ ~resp.data.hasAnswer
                   THEN catchThrows ELSE tryThrows]
  /\ isTyping' = FALSE
  /\ UNCHANGED <<inputValue, normVars, routeVars, restVars>>

ChatInit == NormIdle /\ ChatIdle /\ RouteIdle /\ RestIdle

ChatNext ==
  \/ TypeInput
  \/ ClickSend
  \/ PressEnter
  \/ \E r \in 1..Len(requests) : QaProxy(r)
  \/ \E r \in 1..Len(requests) : HandleResponse(r)

SpecChat == ChatInit /\ [][ChatNext]_vars

\* ------------------------------- batch-analyze and custom-column POST routes
\* The Prisma Vault table: one vault, whose id differs from its projectId.
Vaults == {[id |-> "v1", projectId |-> "p1"]}
\* The table page sends the vault's id, or the projectId when it found no vault.
RequestVaultIds == {"v1", "p1"}
RouteKinds == {"batch-analyze", "custom-column"}

\* client.vault.findUnique({where: {id: vault_id}}) and line 19.
ProjectIdOf(vault_id) ==
  IF \E v \in Vaults : v.id = vault_id
  THEN (CHOOSE v \in Vaults : v.id = vault_id).projectId
  ELSE vault_id

\* Document lists of GET /api/documents: distinct documents, each indexed or not.
BackendDocumentLists ==
  {l \in SeqsUpTo((1..MaxDocs) \X {"indexed", "processing"}, MaxDocs) :
     \A i, j \in 1..Len(l) : i # j => l[i][1] # l[j][1]}

\* Lines 29-35: the documents as the route forwards them.
MapDocuments(list) ==
  [i \in 1..Len(list) |->
     [id |-> list[i][1],
      status |-> IF list[i][2] = "indexed" THEN "completed" ELSE list[i][2],
      firestoreDocId |-> list[i][1]]]

\* Line 43: documents.length === 0.
NoDocumentsNeverChecked(documents) == FALSE

NoDocuments(documents) == Len(documents) = 0

\* The column defaults of the AnalysisJob table: "status" DEFAULT 'pending',
\* "progress" DEFAULT 0, "processedDocs" DEFAULT 0.
AnalysisJobStartsProcessing ==
  [status |-> "processing", progress |-> 0, processedDocs |-> 0]

AnalysisJobQueued == [status |-> "queued", progress |-> 0, processedDocs |-> 0]

AnalysisJobDefaults == [status |-> "pending", progress |-> 0, processedDocs |-> 0]

\* The job the backend creates for a submission (spec 4.4, submit): the
\* target documents of the body, nothing processed, an empty results map.
CreateJob(kind, body) ==
  [kind |-> kind, vault_id |-> body.vault_id,
   status |-> AnalysisJobDefaults.status,
   total_docs |-> Len(body.documents),
   processed_docs |-> AnalysisJobDefaults.processedDocs,
   progress |-> AnalysisJobDefaults.progress,
   error |-> "",
   results |-> <<>>,
   column_name |-> IF "column_name" \in DOMAIN body THEN body.column_name ELSE <<>>,
   documents |-> [i \in 1..Len(body.documents) |-> body.documents[i].id]]

\* Lines 6-9: the request arrives and its body is parsed.
RouteRequest ==
  /\ route.pc = "idle"
  /\ submissions < MaxSubmissions
  /\ submissions' = submissions + 1
  /\ \E k \in RouteKinds, v \in RequestVaultIds :
       route' = [IdleRoute EXCEPT !.pc = "lookup", !.kind = k, !.vault_id = v]
  /\ UNCHANGED <<backendPosts, jobs, normVars, chatVars, restVars>>

\* Lines 14-19, or the outer catch when Prisma throws.
RouteLookup ==
  /\ route.pc = "lookup"
  /\ \/ route' = [route EXCEPT !.pc = "fetch", !.projectId = ProjectIdOf(route.vault_id)]
     \/ route' = [route EXCEPT !.pc = "responded", !.response = [status |-> 500, job_id |-> 0]]
  /\ UNCHANGED <<submissions, backendPosts, jobs, normVars, chatVars, restVars>>

\* Lines 22-39: the document list of the project, [] when the backend answers
\* not OK, answers without a documents field, or cannot be reached.
RouteFetchDocuments ==
  /\ route.pc = "fetch"
  /\ \/ \E l \in BackendDocumentLists :
          route' = [route EXCEPT !.pc = "check", !.fetch = "ok", !.documents = MapDocuments(l)]
     \/ \E f \in {"nofield", "notok", "threw"} :
          route' = [route EXCEPT !.pc = "check", !.fetch = f, !.documents = <<>>]
  /\ UNCHANGED <<submissions, backendPosts, jobs, normVars, chatVars, restVars>>

\* Lines 43-61: the 404, or the POST to the backend's job endpoint.
RouteCheck ==
  /\ route.pc = "check"
  /\ IF NoDocuments(route.documents)
     THEN /\ route' = [route EXCEPT !.pc = "responded",
                                    !.response = [status |-> 404, job_id |-> 0]]
          /\ UNCHANGED backendPosts
     ELSE /\ route' = [route EXCEPT !.pc = "posted", !.posted = TRUE]
          /\ backendPosts' = Append(backendPosts,
               [kind |-> route.kind, vault_id |-> route.projectId,
                documents |-> route.documents])
  /\ UNCHANGED <<submissions, jobs, normVars, chatVars, restVars>>

\* Lines 63-82: the backend creates the job and the route passes its body on,
\* or the backend answers not OK or the fetch throws, or the job is created but
\* the backend's answer does not parse.
RouteRespond ==
  /\ route.pc = "posted"
  /\ backendPosts # <<>>
  /\ backendPosts' = Tail(backendPosts)
  /\ \/ /\ jobs' = Append(jobs, CreateJob(Head(backendPosts).kind, Head(backendPosts)))
        /\ route' = [route EXCEPT !.pc = "responded",
                                  !.response = [status |-> 200, job_id |-> Len(jobs) + 1]]
     \/ /\ \E st \in {422, 500} :
             route' = [route EXCEPT !.pc = "responded",
                                    !.response = [status |-> st, job_id |-> 0]]
        /\ UNCHANGED jobs
     \/ /\ jobs' = Append(jobs, CreateJob(Head(backendPosts).kind, Head(backendPosts)))
        /\ route' = [route EXCEPT !.pc = "responded",
                                  !.response = [status |-> 500, job_id |-> 0]]
  /\ UNCHANGED <<submissions, normVars, chatVars, restVars>>

\* The route is called again.
RouteReturn ==
  /\ route.pc = "responded"
  /\ route' = IdleRoute
  /\ UNCHANGED <<submissions, backendPosts, jobs, normVars, chatVars, restVars>>

RouteInit == NormIdle /\ ChatIdle /\ RouteIdle /\ RestIdle

RouteNext ==
  \/ RouteRequest
  \/ RouteLookup
  \/ RouteFetchDocuments
  \/ RouteCheck
  \/ RouteRespond
  \/ RouteReturn

SpecRoute == RouteInit /\ [][RouteNext]_vars

\* ------------------------------------------------------------- job manager
\* The backend's job manager (spec 4.4 and 5): its worker takes a job from
\* pending to processing, processes the target documents concurrently up to
\* MaxWorkers at a time, and ends the job as completed or failed.
\* What processing one document ends in: a valid AnalysisResult, or the error
\* entry of a retrieval or a generation failure (spec 7).
DocumentErrors == {"RetrievalUnavailable", "GenerationFailed"}
Outcomes == {"valid"} \cup DocumentErrors
Terminal == {"completed", "failed"}
JobIds == 1..Len(jobs)
Targets(job) == Range(job.documents)
Attempted(job) == DOMAIN job.results
TasksOf(j) == {t[2] : t \in {u \in tasks : u[1] = j}}

\* progress = floor(100 * processed_docs / total_docs).
Progress(processed_docs, total_docs) == (100 * processed_docs) \div total_docs

\* results[d] := outcome.
Put(results, d, outcome) ==
  [x \in DOMAIN results \cup {d} |-> IF x = d THEN outcome ELSE results[x]]

RecordResultSkipsFailed(job, d, outcome) ==
  IF outcome \in DocumentErrors
  THEN [job EXCEPT !.results = Put(@, d, outcome)]
  ELSE [job EXCEPT !.results = Put(@, d, outcome),
                   !.processed_docs = @ + 1,
                   !.progress = Progress(job.processed_docs + 1, job.total_docs)]

RecordResultCountsSlots(job, d, outcome) ==
  [job EXCEPT !.results = Put(@, d, outcome),
              !.processed_docs = Cardinality(DOMAIN job.results),
              !.progress = Progress(Cardinality(DOMAIN job.results), job.total_docs)]

\* One document of the worker loop is done: its AnalysisResult, or its error
\* entry, is written, processed_docs incremented and progress recomputed, all
\* in one atomic update of the job.
RecordResult(job, d, outcome) ==
  [job EXCEPT !.results = Put(@, d, outcome),
              !.processed_docs = @ + 1,
              !.progress = Progress(job.processed_docs + 1, job.total_docs)]

\* The documents of the vault as GET /api/documents lists them when the first
\* n are uploaded.
UploadedDocuments(n) == [i \in 1..n |-> <<i, "indexed">>]

\* A POST to /api/table/batch-analyze or /api/table/custom-column served whole
\* (lines 6-82): the project's documents are fetched and mapped, an empty list
\* is answered 404, and the backend creates the job for the body posted.
SubmitJob ==
  /\ Len(jobs) < MaxJobs
  /\ \E k \in RouteKinds, v \in RequestVaultIds, n \in 0..MaxDocs :
       LET docs == MapDocuments(UploadedDocuments(n))
       IN  /\ ~NoDocuments(docs)
           /\ jobs' = Append(jobs,
                 CreateJob(k, [kind |-> k, vault_id |-> ProjectIdOf(v), documents |-> docs]))
  /\ UNCHANGED <<tasks, route, submissions, backendPosts, normVars, chatVars, resultsVars, searchVars, vaultVars, tableVars>>

\* The scheduled processing starts.
StartJob(j) ==
  /\ jobs[j].status = "pending"
  /\ jobs' = [jobs EXCEPT ![j].status = "processing"]
  /\ UNCHANGED <<tasks, route, submissions, backendPosts, normVars, chatVars, resultsVars, searchVars, vaultVars, tableVars>>

\* The worker loop takes up a target document not yet attempted.
StartDocument(j, d) ==
  /\ jobs[j].status = "processing"
  /\ d \in Targets(jobs[j]) \ (Attempted(jobs[j]) \cup TasksOf(j))
  /\ Cardinality(TasksOf(j)) < MaxWorkers
  /\ tasks' = tasks \cup {<<j, d>>}
  /\ UNCHANGED <<jobs, route, submissions, backendPosts, normVars, chatVars, resultsVars, searchVars, vaultVars, tableVars>>

\* Retrieval, generation and normalisation for one document return, or one of
\* them raises and the error is caught as that document's error entry.
CompleteDocument(j, d) ==
  /\ jobs[j].status = "processing"
  /\ d \in TasksOf(j)
  /\ \E outcome \in Outcomes :
       jobs' = [jobs EXCEPT ![j] = RecordResult(jobs[j], d, outcome)]
  /\ tasks' = tasks \ {<<j, d>>}
  /\ UNCHANGED <<route, submissions, backendPosts, normVars, chatVars, resultsVars, searchVars, vaultVars, tableVars>>

\* Every target document has been attempted.
FinishJob(j) ==
  /\ jobs[j].status = "processing"
  /\ Attempted(jobs[j]) = Targets(jobs[j])
  /\ jobs' = [jobs EXCEPT ![j].status = "completed"]
  /\ UNCHANGED <<tasks, route, submissions, backendPosts, normVars, chatVars, resultsVars, searchVars, vaultVars, tableVars>>

\* An infrastructure-level failure: no backend can be reached any more, the
\* documents in progress are given up and the job fails.
FailJob(j) ==
  /\ jobs[j].status = "processing"
  /\ jobs' = [jobs EXCEPT ![j].status = "failed", ![j].error = "backend unreachable"]
  /\ tasks' = {t \in tasks : t[1] # j}
  /\ UNCHANGED <<route, submissions, backendPosts, normVars, chatVars, resultsVars, searchVars, vaultVars, tableVars>>

WorkerStep(j) ==
  \/ StartJob(j)
  \/ \E d \in Targets(jobs[j]) : StartDocument(j, d)
  \/ \E d \in Targets(jobs[j]) : CompleteDocument(j, d)
  \/ FinishJob(j)

JobInit == NormIdle /\ ChatIdle /\ RouteIdle /\ RestIdle

JobNext ==
  \/ SubmitJob
  \/ \E j \in JobIds : StartJob(j)
  \/ \E j \in JobIds : \E d \in Targets(jobs[j]) : StartDocument(j, d)
  \/ \E j \in JobIds : \E d \in Targets(jobs[j]) : CompleteDocument(j, d)
  \/ \E j \in JobIds : FinishJob(j)
  \/ \E j \in JobIds : FailJob(j)

SpecJob == JobInit /\ [][JobNext]_vars

\* Processing is scheduled on submission and every external call returns or
\* times out (spec 5), so a worker step that stays possible is taken.
SpecJobFair == SpecJob /\ WF_vars(\E j \in JobIds : WorkerStep(j))

\* --------------------------------------------- GET /api/table/results/[vaultId]
\* An analysis as the backend stores it for a document: the template fields
\* and the custom columns answered so far.  null is NullAnalysis.
NullAnalysis == [defined |-> FALSE, customColumns |-> {}]
Analysis(customColumns) == [defined |-> TRUE, customColumns |-> customColumns]

\* Lines 31-39: one row per listed document, analysis null.
MapRows(list) ==
  [i \in 1..Len(list) |->
     [id |-> list[i][1],
      status |-> IF list[i][2] = "indexed" THEN "completed" ELSE list[i][2],
      firestoreDocId |-> list[i][1],
      analysis |-> NullAnalysis]]

\* Lines 24-43: [] unless the backend answers OK with a documents field.
ListedRows(docFetch) ==
  IF docFetch.outcome = "ok" THEN MapRows(docFetch.list) ELSE <<>>

\* Lines 52-61: [] unless the backend answers OK with the results.
FetchedAnalysis(anFetch) ==
  IF anFetch.outcome = "ok" THEN anFetch.list ELSE <<>>

\* Lines 65-70, then analysisMap.get(id): the analysis of the last result
\* that carries this id, undefined (here null) when there is none.  A result
\* without an id (id 0) is skipped.
analysisMapGet(analysisResults, id) ==
  LET hits == {i \in 1..Len(analysisResults) :
                 analysisResults[i].id # 0 /\ analysisResults[i].id = id}
  IN  IF hits = {} THEN NullAnalysis
      ELSE analysisResults[CHOOSE i \in hits : \A h \in hits : h <= i].analysis

OrNull(a, b) == IF a.defined THEN a ELSE IF b.defined THEN b ELSE NullAnalysis

MergeAnalysisByPosition(rows, analysisResults) ==
  [i \in 1..Len(rows) |->
     [rows[i] EXCEPT !.analysis =
        IF i <= Len(analysisResults) THEN analysisResults[i].analysis
        ELSE NullAnalysis]]

\* Lines 64-75.
MergeAnalysis(rows, analysisResults) ==
  IF Len(analysisResults) > 0
  THEN [i \in 1..Len(rows) |->
          [rows[i] EXCEPT !.analysis =
             OrNull(analysisMapGet(analysisResults, rows[i].id),
                    analysisMapGet(analysisResults, rows[i].firestoreDocId))]]
  ELSE rows

\* What the backend's GET /api/table/results/{vaultId} may hold: results for
\* listed documents, for documents not listed (MaxDocs + 1) and without an id
\* (0), each with an analysis or with analysis null.
StoredAnalyses == {NullAnalysis, Analysis({}), Analysis({"a_b"})}
StoredResultLists ==
  SeqsUpTo([id : 0..(MaxDocs + 1), analysis : StoredAnalyses], MaxDocs)

\* Lines 6-13.
ResultsRequest ==
  /\ resultsRoute.pc = "idle"
  /\ \E v \in RequestVaultIds :
       resultsRoute' = [IdleResults EXCEPT !.pc = "lookup", !.vaultId = v]
  /\ UNCHANGED <<normVars, chatVars, routeVars, workerVars, searchVars, vaultVars, tableVars>>

\* Lines 16-21, or the outer catch (lines 80-85) when Prisma throws.
ResultsLookup ==
  /\ resultsRoute.pc = "lookup"
  /\ \/ resultsRoute' = [resultsRoute EXCEPT !.pc = "documents",
                             !.projectId = ProjectIdOf(resultsRoute.vaultId)]
     \/ resultsRoute' = [resultsRoute EXCEPT !.pc = "responded",
                             !.response = [status |-> 500, rows |-> <<>>]]
  /\ UNCHANGED <<normVars, chatVars, routeVars, workerVars, searchVars, vaultVars, tableVars>>

\* Lines 24-49: the project's documents; with none of them the route answers
\* [] at once.
ResultsFetchDocuments ==
  /\ resultsRoute.pc = "documents"
  /\ \E f \in [outcome : {"ok"}, list : BackendDocumentLists]
              \cup [outcome : {"nofield", "notok", "threw"}, list : {<<>>}] :
       LET documents == ListedRows(f)
       IN  resultsRoute' =
             IF Len(documents) = 0
             THEN [resultsRoute EXCEPT !.pc = "responded", !.docFetch = f,
                                       !.response = [status |-> 200, rows |-> <<>>]]
             ELSE [resultsRoute EXCEPT !.pc = "analysis", !.docFetch = f,
                                       !.documents = documents]
  /\ UNCHANGED <<normVars, chatVars, routeVars, workerVars, searchVars, vaultVars, tableVars>>

\* The id in `${BACKEND_URL}/api/table/results/${vaultId}`, lines 54 and 96.
BackendResultsId(vaultId) == vaultId

\* Lines 52-78: the stored analysis results, merged into the rows.
ResultsFetchAnalysis ==
  /\ resultsRoute.pc = "analysis"
  /\ \E f \in [outcome : {"ok"}, list : StoredResultLists]
              \cup [outcome : {"notok", "threw"}, list : {<<>>}] :
       LET documents == MergeAnalysis(resultsRoute.documents, FetchedAnalysis(f))
       IN  resultsRoute' =
             [resultsRoute EXCEPT !.pc = "responded", !.anFetch = f,
                                  !.resultsId = BackendResultsId(resultsRoute.vaultId),
                                  !.documents = documents,
                                  !.response = [status |-> 200, rows |-> documents]]
  /\ UNCHANGED <<normVars, chatVars, routeVars, workerVars, searchVars, vaultVars, tableVars>>

\* DELETE, lines 93-94: the request arrives.
ResultsDeleteRequest ==
  /\ resultsRoute.pc = "idle"
  /\ \E v \in RequestVaultIds :
       resultsRoute' = [IdleResults EXCEPT !.pc = "delete", !.vaultId = v]
  /\ UNCHANGED <<normVars, chatVars, routeVars, workerVars, searchVars, vaultVars, tableVars>>

\* DELETE, lines 96-117: the backend's answer is passed on with its status,
\* or the fetch or the parsing throws.
ResultsDelete ==
  /\ resultsRoute.pc = "delete"
  /\ \E st \in {200, 404, 500} :
       resultsRoute' =
         [resultsRoute EXCEPT !.pc = "responded",
                              !.resultsId = BackendResultsId(resultsRoute.vaultId),
                              !.response = [status |-> st, rows |-> <<>>]]
  /\ UNCHANGED <<normVars, chatVars, routeVars, workerVars, searchVars, vaultVars, tableVars>>

\* The route is called again.
ResultsReturn ==
  /\ resultsRoute.pc = "responded"
  /\ resultsRoute' = IdleResults
  /\ UNCHANGED <<normVars, chatVars, routeVars, workerVars, searchVars, vaultVars, tableVars>>

ResultsInit == NormIdle /\ ChatIdle /\ RouteIdle /\ RestIdle

ResultsNext ==
  \/ ResultsRequest
  \/ ResultsLookup
  \/ ResultsFetchDocuments
  \/ ResultsFetchAnalysis
  \/ ResultsDeleteRequest
  \/ ResultsDelete
  \/ ResultsReturn

SpecResults == ResultsInit /\ [][ResultsNext]_vars

\* --------------------------------------------- jurisscope.legal_search tool
\* A candidate is named by its rank in the fused (RRF) ranking, so the result
\* of the hybrid search is <<1, ..., n>>.
FusedCandidates(n) == [i \in 1..n |-> i]

\* s[:k].
Take(s, k) == SubSeq(s, 1, IF k < Len(s) THEN k ELSE Len(s))

\* The candidates sorted by reranker score, highest first; of several with
\* the highest score the first in the fused ranking comes first (spec 4.1,
\* steps 4 and 5).
RECURSIVE ByScore(_, _)
ByScore(candidates, scores) ==
  IF candidates = <<>> THEN <<>>
  ELSE LET best == CHOOSE i \in 1..Len(candidates) :
                     /\ \A j \in 1..Len(candidates) :
                          scores[candidates[j]] <= scores[candidates[i]]
                     /\ \A j \in 1..(i - 1) :
                          scores[candidates[j]] < scores[candidates[i]]
           rest == [j \in 1..(Len(candidates) - 1) |->
                      IF j < best THEN candidates[j] ELSE candidates[j + 1]]
       IN  <<candidates[best]>> \o ByScore(rest, scores)

\* jina_rerank(query, results): the reranker's order, or the fused order when
\* the reranker cannot be reached (spec 4.1, failure handling).
jina_rerank(results, rerank) ==
  IF rerank.reachable THEN ByScore(results, rerank.scores) ELSE results

legal_search_unranked(results, rerank, k) == Take(results, k)

legal_search_untruncated(results, rerank, k) == jina_rerank(results, rerank)

\* Lines 54-59: reranked = jina_rerank(query, results); return reranked[:k].
legal_search(results, rerank, k) == Take(jina_rerank(results, rerank), k)

\* legal_search(query, project_id, k) is called.
SearchCall ==
  /\ search.pc = "idle"
  /\ \E k \in 1..(MaxCandidates + 1) :
       search' = [IdleSearch EXCEPT !.pc = "search", !.k = k]
  /\ UNCHANGED <<normVars, chatVars, routeVars, workerVars, resultsVars, tableVars, vaultVars>>

\* Lines 56-57: the query is embedded and the hybrid search returns its
\* candidates in fused order; or the embedding provider or the index cannot
\* be reached and the call fails.
HybridSearch ==
  /\ search.pc = "search"
  /\ \/ \E n \in 0..MaxCandidates :
          search' = [search EXCEPT !.pc = "rerank", !.results = FusedCandidates(n)]
     \/ search' = [search EXCEPT !.pc = "failed"]
  /\ UNCHANGED <<normVars, chatVars, routeVars, workerVars, resultsVars, tableVars, vaultVars>>

\* Lines 58-59: the reranker scores the candidates, or cannot be reached.
RerankAndReturn ==
  /\ search.pc = "rerank"
  /\ \E r \in [reachable : {TRUE},
                scores : [1..Len(search.results) -> 1..MaxCandidates]]
              \cup {NoRerank} :
       search' = [search EXCEPT !.pc = "returned", !.rerank = r,
                                !.returned = legal_search(search.results, r, search.k)]
  /\ UNCHANGED <<normVars, chatVars, routeVars, workerVars, resultsVars, tableVars, vaultVars>>

\* The tool is called again.
SearchDone ==
  /\ search.pc \in {"returned", "failed"}
  /\ search' = IdleSearch
  /\ UNCHANGED <<normVars, chatVars, routeVars, workerVars, resultsVars, tableVars, vaultVars>>

SearchInit == NormIdle /\ ChatIdle /\ RouteIdle /\ RestIdle

SearchNext == SearchCall \/ HybridSearch \/ RerankAndReturn \/ SearchDone

SpecSearch == SearchInit /\ [][SearchNext]_vars

\* ------------------------------------------------- table page (TableReview)
\* A column name or key is a sequence of characters.
\* columnName.replace(/ /g, '_').replace(/-/g, '_').toLowerCase(), lines 166, 305.
Underscore(c) == IF c \in {" ", "-"} THEN "_" ELSE c
ToLowerCase(c) ==
  CASE c = "A" -> "a" [] c = "B" -> "b" [] c = "C" -> "c" [] OTHER -> c
FieldKey(columnName) ==
  [i \in 1..Len(columnName) |-> ToLowerCase(Underscore(columnName[i]))]

\* A column by its id: a template column's id, or `custom_${fieldKey}`.
TemplateColumn(id) == [custom |-> FALSE, key |-> <<id>>]
CustomColumn(fieldKey) == [custom |-> TRUE, key |-> fieldKey]

\* Lines 95-102.
templateColumns ==
  <<TemplateColumn("date"), TemplateColumn("documentType"),
    TemplateColumn("summary"), TemplateColumn("author"),
    TemplateColumn("personsMentioned"), TemplateColumn("language")>>

\* The vault of the page holds one indexed document.
VaultDocuments == UploadedDocuments(1)

\* What the backend's GET /api/table/results/{vaultId} returns: for every
\* document with a valid result, its analysis with the custom columns
\* answered so far under their field keys.
ValidFor(d) ==
  {j \in JobIds : d \in Attempted(jobs[j]) /\ jobs[j].results[d] = "valid"}
StoredResults ==
  LET all == [i \in 1..Len(VaultDocuments) |->
                [id |-> VaultDocuments[i][1],
                 analysis |->
                   IF ValidFor(VaultDocuments[i][1]) = {} THEN NullAnalysis
                   ELSE Analysis({FieldKey(jobs[j].column_name) :
                          j \in {v \in ValidFor(VaultDocuments[i][1]) :
                                   jobs[v].kind = "custom-column"}})]]
  IN  SelectSeq(all, LAMBDA r : r.analysis.defined)

\* GET /api/table/results/[vaultId] served whole (lines 6-87): the outer
\* catch, no documents from the backend, no analysis results, or both fetched.
ResultsOutcomes == {"ok", "noanalysis", "nodocuments", "error"}
GetResults(outcome) ==
  IF outcome = "error" THEN [status |-> 500, rows |-> <<>>]
  ELSE LET documents ==
             ListedRows(IF outcome = "nodocuments"
                        THEN [outcome |-> "notok", list |-> <<>>]
                        ELSE [outcome |-> "ok", list |-> VaultDocuments])
       IN  IF Len(documents) = 0 THEN [status |-> 200, rows |-> <<>>]
           ELSE [status |-> 200,
                 rows |-> MergeAnalysis(documents,
                            FetchedAnalysis(IF outcome = "noanalysis"
                                            THEN [outcome |-> "notok", list |-> <<>>]
                                            ELSE [outcome |-> "ok", list |-> StoredResults]))]

\* poll(job_id): the snapshot of a job the backend answers with.
JobSnapshot(j) ==
  [isJob |-> TRUE, job_id |-> j, status |-> jobs[j].status,
   progress |-> jobs[j].progress, processed_docs |-> jobs[j].processed_docs,
   total_docs |-> jobs[j].total_docs]

\* GET /api/table/job/[jobId] served whole (lines 5-32): the backend's body
\* with 200, {error} with the backend's status when it answers not OK, {error}
\* with 500 when its body does not parse or it cannot be reached.
BackendJobOutcomes == {"ok", "notok", "notjson", "unreachable"}
JobStatusRoute(outcome, jobId) ==
  CASE outcome = "ok" -> [status |-> 200, body |-> JobSnapshot(jobId), rows |-> <<>>]
    [] outcome = "notok" -> [status |-> 404, body |-> ErrorBody, rows |-> <<>>]
    [] OTHER -> [status |-> 500, body |-> ErrorBody, rows |-> <<>>]

\* A fetch of the page in flight: sent, then answered by the route.  n tells
\* apart the fetches in flight at the same time.
NoReply == [status |-> 0, body |-> NoJobBody, rows |-> <<>>]
FreshN(inFlight) ==
  CHOOSE n \in 1..(Cardinality(inFlight) + 1) : \A c \in inFlight : c.n # n
Call(inFlight, type, jobId, name, captured) ==
  [type |-> type, stage |-> "sent", n |-> FreshN(inFlight), jobId |-> jobId,
   name |-> name, captured |-> captured, response |-> NoReply]
Answered(c, response) == [c EXCEPT !.stage = "answered", !.response = response]
Sent(type) == {c \in calls : c.type = type /\ c.stage = "sent"}
Received(type) == {c \in calls : c.type = type /\ c.stage = "answered"}

\* customColumnSet, lines 154-168, and the columns built from it, 171-183.
\* A Set keeps insertion order; the keys are put in one fixed order here.
CustomKeys(rows, captured) ==
  UNION {rows[i].analysis.customColumns : i \in 1..Len(rows)}
    \cup {FieldKey(e.columnName) : e \in captured}
RECURSIVE SetToSeq(_)
SetToSeq(S) ==
  IF S = {} THEN <<>>
  ELSE LET x == CHOOSE y \in S : TRUE IN <<x>> \o SetToSeq(S \ {x})
DynamicColumns(rows, captured) ==
  templateColumns \o
    SetToSeq({CustomColumn(k) : k \in CustomKeys(rows, captured)})

\* data.some(doc => doc.analysis), line 148.
HasAnalysis(rows) == \E i \in 1..Len(rows) : rows[i].analysis.defined

\* The backend serves GET /api/table/results for a fetchDocuments in flight.
FetchServe(c) ==
  /\ c \in Sent("documents")
  /\ \E outcome \in ResultsOutcomes :
       LET r == GetResults(outcome)
       IN  calls' = (calls \ {c}) \cup
             {Answered(c, [status |-> r.status, body |-> NoJobBody, rows |-> r.rows])}
  /\ UNCHANGED <<analysisJob, isAnalyzing, columns, customColumnJobs, documentRows, timers, pollClosure, ticks>>
  /\ UNCHANGED <<normVars, chatVars, routeVars, workerVars, resultsVars, searchVars, vaultVars>>

\* fetchDocuments after its await, lines 138-184.  c.captured is the
\* customColumnJobs of the render whose fetchDocuments was called.
FetchReceive(c) ==
  /\ c \in Received("documents")
  /\ calls' = calls \ {c}
  /\ IF c.response.status # 200
     THEN UNCHANGED <<documentRows, columns>>
     ELSE /\ documentRows' = c.response.rows
          /\ columns' = IF HasAnalysis(c.response.rows)
                        THEN DynamicColumns(c.response.rows, c.captured)
                        ELSE columns
  /\ UNCHANGED <<analysisJob, isAnalyzing, customColumnJobs, timers, pollClosure, ticks>>
  /\ UNCHANGED <<normVars, chatVars, routeVars, workerVars, resultsVars, searchVars, vaultVars>>

\* handleDiscoverEvidence up to its await, lines 229-241.  The button is
\* disabled while isAnalyzing or with no documents (line 515).
DiscoverClick ==
  /\ ~isAnalyzing
  /\ Len(documentRows) > 0
  /\ Len(jobs) < MaxJobs
  /\ isAnalyzing' = TRUE
  /\ calls' = calls \cup {Call(calls, "discover", 0, <<>>, {})}
  /\ UNCHANGED <<analysisJob, columns, customColumnJobs, documentRows, timers, pollClosure, ticks>>
  /\ UNCHANGED <<normVars, chatVars, routeVars, workerVars, resultsVars, searchVars, vaultVars>>

\* The body the backend answers a submission with: {job_id, status, total_docs}.
SubmitBody(job_id, job) ==
  [isJob |-> TRUE, job_id |-> job_id, status |-> job.status, progress |-> 0,
   processed_docs |-> 0, total_docs |-> job.total_docs]

\* POST /api/table/batch-analyze served whole: the backend creates the job,
\* or the route answers an error.
DiscoverServe(c) ==
  /\ c \in Sent("discover")
  /\ \E ok \in BOOLEAN :
       IF ok
       THEN LET job == CreateJob("batch-analyze",
                         [kind |-> "batch-analyze", vault_id |-> "p1",
                          documents |-> MapDocuments(VaultDocuments)])
            IN  /\ jobs' = Append(jobs, job)
                /\ calls' = (calls \ {c}) \cup
                     {Answered(c, [status |-> 200,
                                   body |-> SubmitBody(Len(jobs) + 1, job),
                                   rows |-> <<>>])}
       ELSE /\ jobs' = jobs
            /\ calls' = (calls \ {c}) \cup
                 {Answered(c, [status |-> 500, body |-> ErrorBody, rows |-> <<>>])}
  /\ UNCHANGED <<analysisJob, isAnalyzing, columns, customColumnJobs, documentRows, timers, pollClosure, ticks>>
  /\ UNCHANGED <<route, submissions, backendPosts, normVars, chatVars, workerVars, resultsVars, searchVars, vaultVars>>

\* handleDiscoverEvidence after its await, lines 243-263.  The polling effect
\* runs again with the closure of the render that follows setAnalysisJob.
DiscoverReceive(c) ==
  /\ c \in Received("discover")
  /\ calls' = calls \ {c}
  /\ IF c.response.status = 200
     THEN /\ analysisJob' = c.response.body
          /\ columns' = templateColumns
          /\ pollClosure' = customColumnJobs
          /\ UNCHANGED isAnalyzing
     ELSE /\ isAnalyzing' = FALSE
          /\ UNCHANGED <<analysisJob, columns, pollClosure>>
  /\ UNCHANGED <<customColumnJobs, documentRows, timers, ticks>>
  /\ UNCHANGED <<normVars, chatVars, routeVars, workerVars, resultsVars, searchVars, vaultVars>>

\* The interval of the polling effect fires, lines 125-133.
Polling ==
  analysisJob.isJob /\ analysisJob.status \in {"pending", "processing"}
PollTick ==
  /\ Polling
  /\ Cardinality(Sent("poll") \cup Received("poll")) < MaxPolls
  /\ calls' = calls \cup {Call(calls, "poll", analysisJob.job_id, <<>>, pollClosure)}
  /\ UNCHANGED <<analysisJob, isAnalyzing, columns, customColumnJobs, documentRows, timers, pollClosure, ticks>>
  /\ UNCHANGED <<normVars, chatVars, routeVars, workerVars, resultsVars, searchVars, vaultVars>>

\* GET /api/table/job/[jobId] answers a poll in flight.
JobStatusAnswer(c, outcome) ==
  /\ c \in Sent("poll") \cup Sent("columnpoll")
  /\ calls' = (calls \ {c}) \cup {Answered(c, JobStatusRoute(outcome, c.jobId))}
  /\ UNCHANGED <<analysisJob, isAnalyzing, columns, customColumnJobs, documentRows, timers, pollClosure, ticks>>
  /\ UNCHANGED <<normVars, chatVars, routeVars, workerVars, resultsVars, searchVars, vaultVars>>

JobStatusServe(c) == \E outcome \in BackendJobOutcomes : JobStatusAnswer(c, outcome)

\* pollJobStatus after its await, lines 204-223: the body is set as the
\* job whatever the status of the response.
PollReceive(c) ==
  /\ c \in Received("poll")
  /\ analysisJob' = c.response.body
  /\ pollClosure' = customColumnJobs
  /\ isAnalyzing' = IF c.response.body.status \in {"completed", "failed"}
                    THEN FALSE ELSE isAnalyzing
  /\ calls' = IF c.response.body.status = "completed"
              THEN (calls \ {c}) \cup
                     {Call(calls \ {c}, "documents", 0, <<>>, c.captured)}
              ELSE calls \ {c}
  /\ UNCHANGED <<columns, customColumnJobs, documentRows, timers, ticks>>
  /\ UNCHANGED <<normVars, chatVars, routeVars, workerVars, resultsVars, searchVars, vaultVars>>

\* The page has mounted: the effect of lines 119-121 has called fetchDocuments.
Mounted ==
  /\ analysisJob = NoJobBody
  /\ isAnalyzing = FALSE
  /\ columns = <<>>
  /\ customColumnJobs = {}
  /\ documentRows = <<>>
  /\ calls = {Call({}, "documents", 0, <<>>, {})}
  /\ timers = {}
  /\ pollClosure = {}
  /\ ticks = 0

PollInit ==
  NormIdle /\ ChatIdle /\ RouteIdle /\ WorkerIdle /\ ResultsIdle /\ SearchIdle /\ VaultIdle /\ Mounted

PollNext ==
  \/ \E c \in calls : FetchServe(c)
  \/ \E c \in calls : FetchReceive(c)
  \/ DiscoverClick
  \/ \E c \in calls : DiscoverServe(c)
  \/ \E c \in calls : DiscoverReceive(c)
  \/ PollTick
  \/ \E c \in calls : JobStatusServe(c)
  \/ \E c \in calls : PollReceive(c)
  \/ \E j \in JobIds : StartJob(j)
  \/ \E j \in JobIds : \E d \in Targets(jobs[j]) : StartDocument(j, d)
  \/ \E j \in JobIds : \E d \in Targets(jobs[j]) : CompleteDocument(j, d)
  \/ \E j \in JobIds : FinishJob(j)
  \/ \E j \in JobIds : FailJob(j)

SpecPoll == PollInit /\ [][PollNext]_vars

\* Every fetch of the page is answered and its response taken up, the
\* interval fires while it exists, the job status route answers OK again and
\* again while polls keep coming, and the worker goes on.
PollFairness ==
  /\ WF_vars(\E c \in calls : FetchServe(c))
  /\ WF_vars(\E c \in calls : FetchReceive(c))
  /\ WF_vars(\E c \in calls : DiscoverServe(c))
  /\ WF_vars(\E c \in calls : DiscoverReceive(c))
  /\ WF_vars(PollTick)
  /\ WF_vars(\E c \in calls : JobStatusServe(c))
  /\ SF_vars(\E c \in calls : JobStatusAnswer(c, "ok"))
  /\ WF_vars(\E c \in calls : PollReceive(c))
  /\ WF_vars(\E j \in JobIds : WorkerStep(j))

SpecPollFair == SpecPoll /\ PollFairness

\* ---------------------------------------- table page, custom columns
\* The names typed into the dialog.
ColumnNames == {<<"A", " ", "b">>, <<"C">>}

CustomJobs == {j \in JobIds : jobs[j].kind = "custom-column"}

\* handleAddCustomColumn up to its await, lines 266-287, from the dialog the
\* Add column button opens (line 533).  The handler and the
\* pollCustomColumnJob and fetchDocuments it reaches belong to the render of
\* the click and see its customColumnJobs.
AddColumn(limit, name) ==
  /\ ~isAnalyzing
  /\ Len(documentRows) > 0
  /\ Len(columns) > 0
  /\ Cardinality(CustomJobs) + Cardinality(Sent("column") \cup Received("column")) < limit
  /\ calls' = calls \cup {Call(calls, "column", 0, name, customColumnJobs)}
  /\ UNCHANGED <<analysisJob, isAnalyzing, columns, customColumnJobs, documentRows, timers, pollClosure, ticks>>
  /\ UNCHANGED <<normVars, chatVars, routeVars, workerVars, resultsVars, searchVars, vaultVars>>

ColumnClick(name) == AddColumn(MaxColumns, name)

\* POST /api/table/custom-column served whole: the backend creates the job,
\* or the route answers an error.
ColumnServe(c) ==
  /\ c \in Sent("column")
  /\ \E ok \in BOOLEAN :
       IF ok
       THEN LET job == CreateJob("custom-column",
                         [kind |-> "custom-column", vault_id |-> "p1",
                          column_name |-> c.name,
                          documents |-> MapDocuments(VaultDocuments)])
            IN  /\ jobs' = Append(jobs, job)
                /\ calls' = (calls \ {c}) \cup
                     {Answered(c, [status |-> 200,
                                   body |-> SubmitBody(Len(jobs) + 1, job),
                                   rows |-> <<>>])}
       ELSE /\ jobs' = jobs
            /\ calls' = (calls \ {c}) \cup
                 {Answered(c, [status |-> 500, body |-> ErrorBody, rows |-> <<>>])}
  /\ UNCHANGED <<analysisJob, isAnalyzing, columns, customColumnJobs, documentRows, timers, pollClosure, ticks>>
  /\ UNCHANGED <<route, submissions, backendPosts, normVars, chatVars, workerVars, resultsVars, searchVars, vaultVars>>

\* handleAddCustomColumn after its await, lines 289-325: the job is tracked,
\* its column appended and its interval started.
ColumnReceive(c) ==
  /\ c \in Received("column")
  /\ calls' = calls \ {c}
  /\ IF c.response.status = 200
     THEN /\ customColumnJobs' = customColumnJobs \cup
               {[jobId |-> c.response.body.job_id, columnName |-> c.name]}
          /\ columns' = Append(columns, CustomColumn(FieldKey(c.name)))
          /\ timers' = timers \cup
               {[jobId |-> c.response.body.job_id, columnName |-> c.name,
                 captured |-> c.captured]}
     ELSE UNCHANGED <<customColumnJobs, columns, timers>>
  /\ UNCHANGED <<analysisJob, isAnalyzing, documentRows, pollClosure, ticks>>
  /\ UNCHANGED <<normVars, chatVars, routeVars, workerVars, resultsVars, searchVars, vaultVars>>

\* The interval of pollCustomColumnJob fires, lines 337-339.
ColumnPollTick(t) ==
  /\ t \in timers
  /\ ticks < MaxColumnPolls
  /\ ticks' = ticks + 1
  /\ calls' = calls \cup {Call(calls, "columnpoll", t.jobId, t.columnName, t.captured)}
  /\ UNCHANGED <<analysisJob, isAnalyzing, columns, customColumnJobs, documentRows, timers, pollClosure>>
  /\ UNCHANGED <<normVars, chatVars, routeVars, workerVars, resultsVars, searchVars, vaultVars>>

\* The interval callback after its await, lines 340-368.
UntrackNothing(tracked, jobId) == tracked

Untrack(tracked, jobId) == {e \in tracked : e.jobId # jobId}
ColumnPollReceive(c) ==
  /\ c \in Received("columnpoll")
  /\ IF c.response.status # 200
     THEN /\ calls' = calls \ {c}
          /\ UNCHANGED <<customColumnJobs, timers>>
     ELSE IF c.response.body.status = "completed"
     THEN /\ timers' = Untrack(timers, c.jobId)
          /\ customColumnJobs' = Untrack(customColumnJobs, c.jobId)
          /\ calls' = (calls \ {c}) \cup
                {Call(calls \ {c}, "documents", 0, <<>>, c.captured)}
     ELSE IF c.response.body.status = "failed"
     THEN /\ timers' = Untrack(timers, c.jobId)
          /\ customColumnJobs' = Untrack(customColumnJobs, c.jobId)
          /\ calls' = calls \ {c}
     ELSE /\ calls' = calls \ {c}
          /\ UNCHANGED <<customColumnJobs, timers>>
  /\ UNCHANGED <<analysisJob, isAnalyzing, columns, documentRows, pollClosure, ticks>>
  /\ UNCHANGED <<normVars, chatVars, routeVars, workerVars, resultsVars, searchVars, vaultVars>>

\* The discovery of an earlier visit: a completed job with a valid result.
DiscoveredJob ==
  LET job == CreateJob("batch-analyze",
               [kind |-> "batch-analyze", vault_id |-> "p1",
                documents |-> MapDocuments(VaultDocuments)])
  IN  [RecordResult(job, VaultDocuments[1][1], "valid") EXCEPT !.status = "completed"]

\* The page mounts in a vault whose documents have been analysed.
ColumnsInit ==
  /\ NormIdle /\ ChatIdle /\ WorkerIdle /\ ResultsIdle /\ SearchIdle /\ VaultIdle /\ Mounted
  /\ route = IdleRoute
  /\ submissions = 0
  /\ backendPosts = <<>>
  /\ jobs = <<DiscoveredJob>>

ColumnsNext ==
  \/ \E c \in calls : FetchServe(c)
  \/ \E c \in calls : FetchReceive(c)
  \/ \E name \in ColumnNames : ColumnClick(name)
  \/ \E c \in calls : ColumnServe(c)
  \/ \E c \in calls : ColumnReceive(c)
  \/ \E t \in timers : ColumnPollTick(t)
  \/ \E c \in calls : JobStatusServe(c)
  \/ \E c \in calls : ColumnPollReceive(c)
  \/ \E j \in JobIds : StartJob(j)
  \/ \E j \in JobIds : \E d \in Targets(jobs[j]) : StartDocument(j, d)
  \/ \E j \in JobIds : \E d \in Targets(jobs[j]) : CompleteDocument(j, d)
  \/ \E j \in JobIds : FinishJob(j)
  \/ \E j \in JobIds : FailJob(j)

SpecColumns == ColumnsInit /\ [][ColumnsNext]_vars

\* The same page with as many custom-column jobs as the backend holds jobs.
TrackNext ==
  \/ \E c \in calls : FetchServe(c)
  \/ \E c \in calls : FetchReceive(c)
  \/ \E name \in ColumnNames : AddColumn(MaxJobs, name)
  \/ \E c \in calls : ColumnServe(c)
  \/ \E c \in calls : ColumnReceive(c)
  \/ \E t \in timers : ColumnPollTick(t)
  \/ \E c \in calls : JobStatusServe(c)
  \/ \E c \in calls : ColumnPollReceive(c)
  \/ \E j \in JobIds : StartJob(j)
  \/ \E j \in JobIds : \E d \in Targets(jobs[j]) : StartDocument(j, d)
  \/ \E j \in JobIds : \E d \in Targets(jobs[j]) : CompleteDocument(j, d)
  \/ \E j \in JobIds : FinishJob(j)
  \/ \E j \in JobIds : FailJob(j)

SpecTrack == ColumnsInit /\ [][TrackNext]_vars

\* ------------------------------------------- vault actions: createFolder
\* src/unnamed/part_001, lines 124-199.  A path is the sequence of its
\* characters; the Folder table is the set of its rows, all of one vault.

PathChars == {"/", "a"}

\* every string of at most MaxPathLen characters
FolderPaths == UNION {[1..n -> PathChars] : n \in 0..MaxPathLen}

\* folderPath.startsWith("/") ? folderPath : `/${folderPath}`, line 133
normalizedPath(folderPath) ==
  IF Len(folderPath) > 0 /\ folderPath[1] = "/" THEN folderPath
  ELSE <<"/">> \o folderPath

\* s.replace(/\/+$/, ""): the trailing slashes are dropped
RECURSIVE StripTrailingSlashes(_)
StripTrailingSlashes(s) ==
  IF Len(s) > 0 /\ s[Len(s)] = "/"
  THEN StripTrailingSlashes(SubSeq(s, 1, Len(s) - 1))
  ELSE s

\* line 134
cleanPath(folderPath) == StripTrailingSlashes(normalizedPath(folderPath))

\* s.split("/"): the pieces between the slashes, empty ones included
RECURSIVE SplitSlash(_, _)
SplitSlash(s, piece) ==
  IF s = <<>> THEN <<piece>>
  ELSE IF Head(s) = "/" THEN <<piece>> \o SplitSlash(Tail(s), <<>>)
  ELSE SplitSlash(Tail(s), Append(piece, Head(s)))

\* .filter((p) => p.length > 0)
RECURSIVE NonEmptyParts(_)
NonEmptyParts(parts) ==
  IF parts = <<>> THEN <<>>
  ELSE IF Len(Head(parts)) > 0 THEN <<Head(parts)>> \o NonEmptyParts(Tail(parts))
  ELSE NonEmptyParts(Tail(parts))

\* line 151
pathParts(folderPath) == NonEmptyParts(SplitSlash(cleanPath(folderPath), <<>>))

\* currentPath after i + 1 rounds of the loop, line 156
RECURSIVE currentPath(_, _)
currentPath(parts, n) ==
  IF n = 0 THEN <<>> ELSE currentPath(parts, n - 1) \o <<"/">> \o parts[n]

\* client.folder.findUnique({where: {vaultId_path: {vaultId, path}}})
FindUnique(rows, path) ==
  IF \E f \in rows : f.path = path
  THEN CHOOSE f \in rows : f.path = path
  ELSE NullFolder

\* the id the database gives a new row
FreshId(rows, path) == <<path, Cardinality({f \in rows : f.path = path}) + 1>>

\* depth: i of the loop, whose i runs from 0 (line 176); n counts from 1
LevelDepthFromOne(n) == n
LevelDepth(n) == n - 1

\* if (!folder), line 169
LevelMissing(rows, path) == ~FindUnique(rows, path).exists

\* one round of the loop, lines 155-182: the level is looked up and created
\* when it is missing, under the folder of the round before
CreateLevel(rows, parts, n) ==
  LET path == currentPath(parts, n)
      parentFolderId ==
        IF n = 1 THEN NoId ELSE FindUnique(rows, currentPath(parts, n - 1)).id
  IN  IF LevelMissing(rows, path)
      THEN rows \cup {[exists |-> TRUE, id |-> FreshId(rows, path),
                       name |-> parts[n], path |-> path,
                       parentFolderId |-> parentFolderId,
                       depth |-> LevelDepth(n)]}
      ELSE rows

\* the first n rounds of the loop
RECURSIVE CreateLevels(_, _, _)
CreateLevels(rows, parts, n) ==
  IF n = 0 THEN rows ELSE CreateLevel(CreateLevels(rows, parts, n - 1), parts, n)

\* a database call may throw: -1 when none does, else the number of rounds of
\* the loop that are over when one throws (0: the first lookup already throws).
\* The check of the user comes first, so nothing throws for a user it rejects.
ThrowPoints(folderPath, authenticated) ==
  IF authenticated THEN -1..Len(pathParts(folderPath)) ELSE {-1}

\* createFolder(vaultId, folderPath): what it returns and the table after it
createFolder(rows, folderPath, authenticated, throwsAfter) ==
  LET parts == pathParts(folderPath)
      existingFolder == FindUnique(rows, cleanPath(folderPath))
      created == CreateLevels(rows, parts, Len(parts))
  IN  IF ~authenticated
      THEN [status |-> 403, data |-> NullFolder, rows |-> rows]
      ELSE IF throwsAfter = 0
      THEN [status |-> 500, data |-> NullFolder, rows |-> rows]
      ELSE IF existingFolder.exists
      THEN [status |-> 200, data |-> existingFolder, rows |-> rows]
      ELSE IF throwsAfter \in 1..Len(parts)
      THEN [status |-> 500, data |-> NullFolder,
            rows |-> CreateLevels(rows, parts, throwsAfter)]
      ELSE [status |-> 201, data |-> FindUnique(created, cleanPath(folderPath)),
            rows |-> created]

\* a caller awaits createFolder
CreateFolderCall ==
  \E folderPath \in FolderPaths, authenticated \in BOOLEAN :
  \E throwsAfter \in ThrowPoints(folderPath, authenticated) :
    LET result == createFolder(folders, folderPath, authenticated, throwsAfter)
    IN  /\ folders' = result.rows
        /\ folderCall' = [called |-> TRUE, folderPath |-> folderPath,
                          authenticated |-> authenticated,
                          throwsAfter |-> throwsAfter,
                          status |-> result.status, data |-> result.data]
        /\ UNCHANGED upload
        /\ UNCHANGED <<normVars, chatVars, routeVars, workerVars, resultsVars,
                       searchVars, tableVars>>

FolderInit ==
  NormIdle /\ ChatIdle /\ RouteIdle /\ WorkerIdle /\ ResultsIdle /\ SearchIdle
  /\ TableUnmounted /\ VaultIdle

SpecFolder == FolderInit /\ [][CreateFolderCall]_vars

\* ------------------------------------- vault actions: uploadFilesToVault
\* src/unnamed/part_001, lines 447-581.  One round of the loop is one step:
\* it awaits createFolder, the backend and createDocument for one file.

\* a file of the list: its name, its path and whether it has a localPath
FileShapes ==
  {[name |-> "x", path |-> <<"x">>], [name |-> "y", path |-> <<"a", "/", "y">>]}
Files ==
  {[name |-> s.name, path |-> s.path, localPath |-> l] :
     s \in FileShapes, l \in BOOLEAN}
FileLists == UNION {[1..n -> Files] : n \in 0..MaxFiles}

\* data.defaultFolder || "/Evidence", line 472, for a call without defaultFolder
DefaultFolder == <<"/", "E", "v", "i", "d", "e", "n", "c", "e">>

\* parts.slice(0, -1)
AllButLast(parts) == SubSeq(parts, 1, Len(parts) - 1)

\* "/" + folders.join("/"), line 482
RECURSIVE SlashJoin(_)
SlashJoin(parts) ==
  IF Len(parts) = 0 THEN <<"/">>
  ELSE IF Len(parts) = 1 THEN <<"/">> \o parts[1]
  ELSE SlashJoin(AllButLast(parts)) \o <<"/">> \o parts[Len(parts)]

\* lines 472-484: the folder the file goes to
FolderPathOf(file) ==
  LET folderNames == NonEmptyParts(AllButLast(SplitSlash(file.path, <<>>)))
  IN  IF "/" \in {file.path[i] : i \in 1..Len(file.path)} /\ Len(folderNames) > 0
      THEN SlashJoin(folderNames)
      ELSE DefaultFolder

\* what the backend does with the upload request: it answers OK, it answers
\* with an error status and a JSON body, its body is not JSON, or the fetch fails
UploadOutcomes == {"ok", "notok", "notjson", "unreachable"}

\* lines 502-533: whether the round goes on to createDocument.  The answer to
\* the POST of a localPath is parsed without a look at response.ok (line 516);
\* the signed URL flow throws unless the response is OK (lines 524-526).
UploadGoesOn(file, outcome) ==
  IF file.localPath THEN outcome \in {"ok", "notok"} ELSE outcome = "ok"

\* createDocument, lines 231-262: 201 with the row, 403 for a user that is not
\* authenticated, 500 when the database throws
DocumentStatuses == {201, 403, 500}

\* one round of the loop, lines 470-570: the entry pushed for the file
Entry(file, folderResult, outcome, documentStatus) ==
  IF folderResult.status \notin {200, 201}
  THEN [file |-> file.name, status |-> "error", folderId |-> NoId]
  ELSE IF ~UploadGoesOn(file, outcome)
  THEN [file |-> file.name, status |-> "error", folderId |-> NoId]
  ELSE IF documentStatus = 201
  THEN [file |-> file.name, status |-> "success",
        folderId |-> folderResult.data.id]
  ELSE [file |-> file.name, status |-> "error", folderId |-> NoId]

\* what happened to the file in its round, as far as the round got
Happened(folderResult, file, outcome, documentStatus) ==
  [folder |-> folderResult.status,
   upload |-> IF folderResult.status \in {200, 201} THEN outcome ELSE "none",
   document |-> IF folderResult.status \in {200, 201} /\ UploadGoesOn(file, outcome)
                THEN documentStatus ELSE 0]

\* lines 459-466: the call starts; a user that is not authenticated gets 403
UploadStart ==
  /\ upload.pc # "loop"
  /\ \E files \in FileLists, authenticated \in BOOLEAN :
       upload' = [called |-> TRUE, pc |-> IF authenticated THEN "loop" ELSE "returned",
                  files |-> files, happened |-> <<>>, results |-> <<>>,
                  status |-> IF authenticated THEN 0 ELSE 403]
  /\ UNCHANGED <<folders, folderCall>>
  /\ UNCHANGED <<normVars, chatVars, routeVars, workerVars, resultsVars,
                 searchVars, tableVars>>

\* lines 469-571: the round of the next file
UploadFile ==
  /\ upload.pc = "loop"
  /\ Len(upload.results) < Len(upload.files)
  /\ LET file == upload.files[Len(upload.results) + 1]
         folderPath == FolderPathOf(file)
     IN  \E authenticated \in BOOLEAN, outcome \in UploadOutcomes,
            documentStatus \in DocumentStatuses :
         \E throwsAfter \in ThrowPoints(folderPath, authenticated) :
           LET folderResult == createFolder(folders, folderPath, authenticated, throwsAfter)
           IN  /\ folders' = folderResult.rows
               /\ folderCall' = [called |-> TRUE, folderPath |-> folderPath,
                                 authenticated |-> authenticated,
                                 throwsAfter |-> throwsAfter,
                                 status |-> folderResult.status,
                                 data |-> folderResult.data]
               /\ upload' =
                    [upload EXCEPT
                       !.results = Append(@, Entry(file, folderResult, outcome, documentStatus)),
                       !.happened = Append(@, Happened(folderResult, file, outcome, documentStatus))]
  /\ UNCHANGED <<normVars, chatVars, routeVars, workerVars, resultsVars,
                 searchVars, tableVars>>

\* lines 573-576: the loop is over
UploadReturn ==
  /\ upload.pc = "loop"
  /\ Len(upload.results) = Len(upload.files)
  /\ upload' = [upload EXCEPT !.pc = "returned", !.status = 200]
  /\ UNCHANGED <<folders, folderCall>>
  /\ UNCHANGED <<normVars, chatVars, routeVars, workerVars, resultsVars,
                 searchVars, tableVars>>

UploadNext == UploadStart \/ UploadFile \/ UploadReturn

SpecUpload == FolderInit /\ [][UploadNext]_vars

\* ------------------------------------------------- citation claims (SpecNorm)
Done == npc = "done"
RawSeq == Flatten(matches(data.answer))
RawNums == Range(RawSeq)
Valid(x) == x \in 1..Len(data.citations)
OutGroups == matches(processedContent)
Markers == Flatten(OutGroups)
DistinctBefore(s, p) == {s[q] : q \in 1..(p - 1)}
DocumentIds(refs) == [k \in 1..Len(refs) |-> refs[k].documentId]
FirstPos(s, x) == CHOOSE p \in 1..Len(s) : s[p] = x /\ x \notin DistinctBefore(s, p)

\* C1: every cited position i of data.citations that is renumbered to n has
\* marker [n] in the processed text resolving to the reference built from
\* data.citations[i-1], whatever else the answer cites.
C1_MarkerKeepsSource ==
  Done =>
    \A i \in 1..Len(data.citations) :
      i \in RawNums =>
        LET n == citationMapGet(citationOrder, i)
        IN  /\ n \in Range(Markers)
            /\ Resolve(reorderedReferences, n).documentId = data.citations[i].doc_id

\* C2: every marker k of the processed text satisfies
\* 1 <= k <= Len(reorderedReferences).
C2_MarkersInRange ==
  Done => \A k \in Range(Markers) : 1 <= k /\ k <= Len(reorderedReferences)

\* C3: each distinct original index gets the next number, starting at 1, the
\* first time it is met; read left to right the processed markers first
\* appear in the order 1, 2, 3, ..., n with no gap.
C3_FirstAppearanceOrder ==
  Done =>
    /\ \A x \in RawNums :
         citationMapGet(citationOrder, x)
           = 1 + Cardinality(DistinctBefore(RawSeq, FirstPos(RawSeq, x)))
    /\ Range(Markers) = 1..Cardinality(RawNums)
    /\ \A p \in 1..Len(Markers) :
         Markers[p] <= 1 + Cardinality(DistinctBefore(Markers, p))
    /\ (\A x \in RawNums : Valid(x)) =>
         DocumentIds(reorderedReferences)
           = [n \in 1..Cardinality(RawNums) |->
                data.citations[CHOOSE x \in RawNums :
                                 citationMapGet(citationOrder, x) = n].doc_id]

C3_Witness ==
  /\ Done
  /\ Len(citationOrder) >= 2
  /\ citationOrder[1] > citationOrder[2]
  /\ Len(RawSeq) > Len(citationOrder)
  /\ Len(reorderedReferences) = Len(citationOrder)

\* C4: an index outside 1..Len(citations) receives no new number and appears
\* in no rewritten group, and a bracket group left without a valid index is
\* removed from the text.
C4_OutOfRangeDropped ==
  Done =>
    /\ \A x \in RawNums : ~Valid(x) => citationMapGet(citationOrder, x) = 0
    /\ Len(OutGroups)
         = Cardinality({t \in 1..Len(data.answer) :
                          /\ data.answer[t].kind = "cite"
                          /\ \E x \in Range(data.answer[t].nums) : Valid(x)})

\* C5: the reordered reference list is as long as the set of distinct indices
\* in 1..Len(citations) that the raw answer cites.
C5_ReferenceCount ==
  Done => Len(reorderedReferences) = Cardinality({x \in RawNums : Valid(x)})

C5_Witness ==
  /\ Done
  /\ \E x \in RawNums : ~Valid(x)
  /\ Len(RawSeq) > Cardinality(RawNums)
  /\ Len(reorderedReferences) >= 1

\* C6: every rewritten bracket group lists its new numbers in strictly
\* ascending order (so each at most once).
C6_GroupsAscending ==
  Done =>
    \A g \in Range(OutGroups) :
      \A i, j \in 1..Len(g.nums) : i < j => g.nums[i] < g.nums[j]

C6_Witness ==
  /\ Done
  /\ \E g \in Range(matches(data.answer)) :
       /\ Len(g.nums) = 2
       /\ citationMapGet(citationOrder, g.nums[1]) > citationMapGet(citationOrder, g.nums[2])
  /\ Len(RawSeq) > Len(citationOrder)

\* C7: an answer without any bracket group is returned unchanged, with an
\* empty reference list and a message that carries no references.
C7_NoGroupsUnchanged ==
  (Done /\ matches(data.answer) = <<>>) =>
    /\ processedContent = data.answer
    /\ reorderedReferences = <<>>
    /\ assistantMessage.content = data.answer
    /\ ~assistantMessage.references.defined

C7_Witness ==
  /\ Done
  /\ matches(data.answer) = <<>>
  /\ Len(data.answer) >= 1
  /\ Len(data.citations) >= 1

\* C8 as stated: an answer whose markers are numbered 1, 2, 3, ... in order of
\* first appearance, without a duplicate inside a group, comes back with the
\* same text.
Sequential(answer) ==
  LET raw == Flatten(matches(answer))
  IN  \A p \in 1..Len(raw) :
        raw[p] >= 1 /\ raw[p] <= 1 + Cardinality(DistinctBefore(raw, p))
NoDuplicateInGroup(answer) ==
  \A g \in Range(matches(answer)) :
    \A i, j \in 1..Len(g.nums) : i # j => g.nums[i] # g.nums[j]
C8_SequentialIsNoOp ==
  (Done /\ Sequential(data.answer) /\ NoDuplicateInGroup(data.answer)) =>
    processedContent = data.answer

\* C8 amended: normalizing an output of the normalizer, paired with its
\* reordered reference list, returns the same text and the same references
\* (document, in the same order).
C8_IdempotentOnOutput ==
  Done =>
    LET citations2 == [k \in 1..Len(reorderedReferences) |->
                         [doc_id |-> reorderedReferences[k].documentId]]
        order2 == CitationOrder(matches(processedContent))
    IN  /\ ProcessedContent(processedContent, order2) = processedContent
        /\ DocumentIds(ReorderedReferences(order2, citations2))
             = DocumentIds(reorderedReferences)

C8_Witness ==
  /\ Done
  /\ processedContent # data.answer
  /\ Len(reorderedReferences) >= 1
  /\ Len(reorderedReferences) < Len(citationOrder)

\* ------------------------------------------------------ chat claim (SpecChat)
BackendFailed(r) ==
  \/ requests[r].backend.kind = "unreachable"
  \/ requests[r].backend.kind = "status" /\ ~ResponseOk(requests[r].backend.status)
MessagesOf(r, kind) ==
  {i \in 1..Len(messages) : messages[i].req = r /\ messages[i].kind = kind}

\* C10: when the backend ask call answers not OK or cannot be reached, the
\* proxy answers with the backend's status (or 500), and the chat appends an
\* error message without answer text or references and shows no answer; an
\* answer is shown only for a request that succeeded, with its references.
C10_FailedAskShowsError ==
  /\ \A r \in 1..Len(requests) :
       (BackendFailed(r) /\ requests[r].stage # "sent") =>
         /\ requests[r].response.status =
              (IF requests[r].backend.kind = "status"
               THEN requests[r].backend.status ELSE 500)
         /\ MessagesOf(r, "answer") = {}
         /\ requests[r].stage = "done" =>
              /\ Cardinality(MessagesOf(r, "error")) = 1
              /\ \A i \in MessagesOf(r, "error") :
                   messages[i].content = <<>> /\ ~messages[i].references.defined
  /\ \A i \in 1..Len(messages) :
       messages[i].kind = "answer" =>
         /\ requests[messages[i].req].stage = "done"
         /\ ResponseOk(requests[messages[i].req].response.status)

Pending == {r \in 1..Len(requests) : requests[r].stage # "done"}

\* C28: at most one ask request of the chat is in flight at any time, and
\* isTyping is true as long as a request is pending.
C28_OneRequestInFlight ==
  /\ Cardinality(Pending) <= 1
  /\ Pending # {} => isTyping

\* C29: a submitted question has exactly one user message and, once
\* handleSendMessage has finished, exactly one assistant message after it:
\* the answer or the error message, never both and never neither.
C29_OneAnswerPerQuestion ==
  \A r \in 1..Len(requests) :
    /\ Cardinality(MessagesOf(r, "query")) = 1
    /\ requests[r].stage = "done" =>
         /\ Cardinality(MessagesOf(r, "answer") \cup MessagesOf(r, "error")) = 1
         /\ \A q \in MessagesOf(r, "query") :
              \A a \in MessagesOf(r, "answer") \cup MessagesOf(r, "error") : q < a

\* ---------------------------------------------------- route claim (SpecRoute)
\* C9: a submission whose document list is empty (or could not be fetched) is
\* answered with an error, POSTs nothing to the backend's job endpoint and
\* returns no job_id; a job_id is only returned, and a job only created, for
\* at least one document.
C9_EmptySubmissionRejected ==
  /\ (route.pc = "responded" /\ route.documents = <<>>) =>
       /\ route.response.status >= 400
       /\ route.response.job_id = 0
       /\ ~route.posted
  /\ route.response.job_id # 0 => Len(route.documents) >= 1
  /\ \A i \in 1..Len(backendPosts) : Len(backendPosts[i].documents) >= 1
  /\ \A j \in 1..Len(jobs) : jobs[j].total_docs >= 1

C9_Witness ==
  /\ route.pc = "responded"
  /\ route.fetch = "notok"
  /\ route.response = [status |-> 404, job_id |-> 0]
  /\ Len(jobs) = 1

\* ------------------------------------------------------- claims on the jobs
StatusMoves ==
  {<<"pending", "processing">>, <<"processing", "completed">>,
   <<"processing", "failed">>}

\* C11: a job is created in pending, its status only moves pending ->
\* processing -> completed or failed, and once it is completed or failed no
\* step changes its status, counters or results again.
C11_JobLifecycle ==
  [][/\ Len(jobs') >= Len(jobs)
     /\ \A j \in 1..Len(jobs) :
          /\ jobs[j].status \in Terminal => jobs'[j] = jobs[j]
          /\ jobs'[j].status # jobs[j].status =>
                <<jobs[j].status, jobs'[j].status>> \in StatusMoves
     /\ \A j \in (Len(jobs) + 1)..Len(jobs') : jobs'[j].status = "pending"]_vars

\* A job that failed after one of its two documents was recorded.
C11_Witness ==
  \E j \in JobIds :
    /\ jobs[j].status = "failed"
    /\ jobs[j].total_docs = 2
    /\ jobs[j].processed_docs = 1

\* C12: a document's retrieval or generation error never fails the job: the
\* step that records a document's outcome, error entry or not, leaves the
\* status alone, and a job that completes has processed_docs equal to its
\* number of target documents and one slot per target document, an error
\* entry for a document that failed and a valid result for any other.
C12_DocumentFailureKeepsJob ==
  [][\A j \in 1..Len(jobs) :
       /\ jobs'[j].results # jobs[j].results => jobs'[j].status = jobs[j].status
       /\ jobs'[j].status = "completed" =>
            /\ jobs'[j].processed_docs = Len(jobs'[j].documents)
            /\ Attempted(jobs'[j]) = Targets(jobs'[j])
            /\ \A d \in Targets(jobs'[j]) : jobs'[j].results[d] \in Outcomes]_vars

\* A completed job over two documents, one failed and one valid.
C12_Witness ==
  \E j \in JobIds :
    /\ jobs[j].status = "completed"
    /\ jobs[j].total_docs = 2
    /\ \E d, e \in Targets(jobs[j]) :
         jobs[j].results[d] \in DocumentErrors /\ jobs[j].results[e] = "valid"

\* C13: every submitted job eventually reaches completed or failed, polled
\* or not: no job stays in pending or processing forever, so again and again
\* every job submitted so far is completed or failed.
C13_JobsTerminate ==
  []<>(\A j \in JobIds : jobs[j].status \in Terminal)

\* A job that completed with every document valid.
C13_Witness ==
  \E j \in JobIds :
    /\ jobs[j].status = "completed"
    /\ \A d \in Targets(jobs[j]) : jobs[j].results[d] = "valid"

\* C15: under every interleaving of the documents' completions,
\* processed_docs is the number of documents attempted so far, and it is
\* total_docs once every document has been attempted.
C15_CountersMatchAttempts ==
  \A j \in JobIds :
    /\ jobs[j].processed_docs = Cardinality(Attempted(jobs[j]))
    /\ Attempted(jobs[j]) = Targets(jobs[j]) =>
         jobs[j].processed_docs = jobs[j].total_docs

\* One document of a job has been counted while another is in progress.
C15_Witness ==
  \E j \in JobIds :
    /\ jobs[j].processed_docs = 1
    /\ Cardinality(TasksOf(j)) = 1

\* C16: in every job state total_docs >= 1, 0 <= processed_docs <=
\* total_docs, progress = floor(100 * processed_docs / total_docs) and
\* 0 <= progress <= 100.
C16_CounterRanges ==
  \A j \in JobIds :
    /\ jobs[j].total_docs >= 1
    /\ 0 <= jobs[j].processed_docs
    /\ jobs[j].processed_docs <= jobs[j].total_docs
    /\ jobs[j].progress = (100 * jobs[j].processed_docs) \div jobs[j].total_docs
    /\ 0 <= jobs[j].progress
    /\ jobs[j].progress <= 100

\* Half of a job's documents are processed.
C16_Witness ==
  \E j \in JobIds :
    /\ jobs[j].total_docs = 2
    /\ jobs[j].processed_docs = 1
    /\ jobs[j].progress = 50
    /\ jobs[j].status = "processing"

\* ------------------------------------------- table page claims (SpecPoll)
\* The progress of the Analyzing indicator: analysisJob?.progress || 0.
Shown(body) == IF body.isJob THEN body.progress ELSE 0

\* C14: for one job_id, the processed_docs and progress values a poll puts
\* on the page, and the progress shown by the Analyzing indicator, never
\* decrease from one poll result to the next.
C14_PollsNeverDecrease ==
  [][\A c \in Received("poll") :
       (c \notin calls' /\ analysisJob.isJob /\ analysisJob.job_id = c.jobId)
         => /\ Shown(analysisJob') >= Shown(analysisJob)
            /\ analysisJob'.isJob =>
                 /\ analysisJob'.processed_docs >= analysisJob.processed_docs
                 /\ analysisJob'.progress >= analysisJob.progress]_vars

\* The polls whose response pollJobStatus takes up in this step.
Applied == {c \in Received("poll") : c \notin calls'}
Ended(body) == body.isJob /\ body.status \in Terminal

\* C24: once a poll response with status completed or failed has been applied
\* to analysisJob, no later response sets the job back to pending or
\* processing (so that polling would start again), and the completion of a
\* job is handled at most once.
C24_ObservedStateNeverRegresses ==
  [][\A c \in Applied :
       (Ended(analysisJob) /\ analysisJob.job_id = c.jobId)
         => /\ ~(analysisJob'.isJob /\ analysisJob'.status \in {"pending", "processing"})
            /\ c.response.body.status # "completed"]_vars

\* C25: when a discovery analysis has been started from the page and the
\* backend job has reached completed or failed, the page eventually clears
\* isAnalyzing (the Discover, Add column and Restart buttons are enabled
\* again), whatever the polls before were answered with.
C25_AnalyzingEventuallyCleared ==
  (isAnalyzing /\ \E j \in JobIds : jobs[j].status \in Terminal) ~> ~isAnalyzing

\* ---------------------------------------- table page claim (SpecColumns)
Tracked(e) == e \in customColumnJobs
ColumnOf(e) == CustomColumn(FieldKey(e.columnName))

\* C20: while a custom-column job is tracked in customColumnJobs, its column
\* stays in the column list across every refresh of the documents, whichever
\* job's completion started the refresh.
C20_TrackedColumnStays ==
  [][\A c \in Received("documents") : \A e \in customColumnJobs :
       (c \notin calls' /\ e \in customColumnJobs'
          /\ ColumnOf(e) \in Range(columns))
         => ColumnOf(e) \in Range(columns')]_vars

\* C27: the ids of the table's columns are pairwise distinct in every state
\* of the page, whatever columns have been added and whatever refreshes ran.
C27_ColumnIdsDistinct ==
  \A i \in 1..Len(columns) : \A k \in 1..Len(columns) :
    i # k => columns[i] # columns[k]

\* ------------------------------------------ table page claim (SpecTrack)
TrackedIds == {e.jobId : e \in customColumnJobs}
TimerIds == {t.jobId : t \in timers}
\* The polls of job j whose response the interval callback takes up in this
\* step, and those among them that observe a terminal status.
Observed(j) ==
  {c \in Received("columnpoll") : c.jobId = j /\ c \notin calls'}
ObservedTerminal(j) ==
  {c \in Observed(j) : c.response.status = 200 /\ c.response.body.status \in Terminal}
\* The submissions of job j whose success the handler takes up in this step.
Succeeded(j) ==
  {c \in Received("column") :
     c.response.status = 200 /\ c.response.body.job_id = j /\ c \notin calls'}

Listed == IF resultsRoute.docFetch.outcome = "ok" THEN resultsRoute.docFetch.list ELSE <<>>
StoredFor(id) ==
  IF resultsRoute.anFetch.outcome = "ok"
  THEN {r \in Range(resultsRoute.anFetch.list) : r.id = id}
  ELSE {}

\* C19: the route answers one row per document the backend lists for the
\* project, in the backend's order; a row's analysis is a stored analysis
\* whose id is the document's id, or null when there is none; results for
\* other documents are dropped, and when the analysis results cannot be
\* fetched every row has analysis null and the answer is still a 200.
C19_RowsPerListedDocument ==
  resultsRoute.pc = "responded" /\ resultsRoute.docFetch.outcome # "none" =>
    LET rows == resultsRoute.response.rows
    IN  /\ resultsRoute.response.status = 200
        /\ Len(rows) = Len(Listed)
        /\ \A i \in 1..Len(rows) :
             /\ rows[i].id = Listed[i][1]
             /\ IF StoredFor(rows[i].id) = {}
                THEN rows[i].analysis = NullAnalysis
                ELSE \E r \in StoredFor(rows[i].id) : rows[i].analysis = r.analysis

\* Two documents listed, the second analysed, the first not, and a stored
\* result of a document that is not listed.
C19_Witness ==
  /\ resultsRoute.pc = "responded"
  /\ Len(resultsRoute.response.rows) = 2
  /\ ~resultsRoute.response.rows[1].analysis.defined
  /\ resultsRoute.response.rows[2].analysis.defined
  /\ \E r \in Range(resultsRoute.anFetch.list) :
       r.analysis.defined /\ \A i \in 1..2 : resultsRoute.response.rows[i].id # r.id

\* C26: the id under which the results route reads (GET) and clears (DELETE)
\* the analysis of a vault is the vault_id the batch-analyze and
\* custom-column routes send to the backend for the same vault.
C26_WrittenIdIsReadId ==
  resultsRoute.resultsId # "" =>
    resultsRoute.resultsId = ProjectIdOf(resultsRoute.vaultId)

\* ------------------------------------------- folder claims (SpecFolder)

\* what the call that a step makes was asked and what it found
Requested == cleanPath(folderCall'.folderPath)
Parts == pathParts(folderCall'.folderPath)
Existing == FindUnique(folders, Requested)
MissingLevels ==
  {n \in 1..Len(Parts) : ~\E f \in folders : f.path = currentPath(Parts, n)}
NewRows == folders' \ folders

\* the new rows are the levels in the set, one row each, with the depth of
\* the segment and under the folder of the prefix before it
CreatesExactly(levels) ==
  /\ folders \subseteq folders'
  /\ Cardinality(NewRows) = Cardinality(levels)
  /\ \A n \in levels :
       \E f \in NewRows :
         /\ f.path = currentPath(Parts, n)
         /\ f.name = Parts[n]
         /\ f.depth = n - 1
         /\ f.parentFolderId =
              IF n = 1 THEN NoId
              ELSE FindUnique(folders', currentPath(Parts, n - 1)).id
         /\ n > 1 => \E g \in folders' : g.path = currentPath(Parts, n - 1)

CreateOrGet ==
  IF Existing.exists
  THEN /\ folderCall'.status = 200
       /\ folderCall'.data = Existing
       /\ folders' = folders
  ELSE /\ folderCall'.status = 201
       /\ CreatesExactly(MissingLevels)

OnePerPath ==
  \A f \in folders' : \A g \in folders' : (f.path = g.path \/ f.id = g.id) => f = g

\* a call that follows a call of the same normalized path changes nothing
SecondCallAddsNothing ==
  (folderCall.called /\ cleanPath(folderCall.folderPath) = Requested)
    => folders' = folders

C30_ReturnedFolderUsable ==
  folderCall.status \in {200, 201} =>
    /\ folderCall.data.exists
    /\ folderCall.data.path = cleanPath(folderCall.folderPath)

\* ------------------------------------------- upload claim (SpecUpload)

\* the round of file i met a failure of the folder, the upload or the record
FailedAt(i) ==
  \/ upload.happened[i].folder \notin {200, 201}
  \/ upload.happened[i].upload \in {"notok", "notjson", "unreachable"}
  \/ upload.happened[i].document \in {403, 500}

\* C22: for every list of n files uploadFilesToVault returns status 200 with
\* exactly n results, one per file in the order of the input, each marked
\* success or error; a failure of the folder, the upload or the document
\* record of a file gives an error entry for that file.
C22_PerFileFailures ==
  upload.pc = "returned" =>
    /\ upload.status = 200
    /\ Len(upload.results) = Len(upload.files)
    /\ \A i \in 1..Len(upload.results) :
         /\ upload.results[i].file = upload.files[i].name
         /\ upload.results[i].status \in {"success", "error"}
         /\ FailedAt(i) => upload.results[i].status = "error"

\* ------------------------------------------------ search claims (SpecSearch)
Returned == search.returned
Score(c) == search.rerank.scores[c]

Before(a, b) == Score(a) > Score(b) \/ (Score(a) = Score(b) /\ a < b)

\* C17: with the reranker unreachable the call still returns, without an
\* error: at most k items, the candidates in fused order truncated to k.
C17_RerankerDownKeepsFusedOrder ==
  [][search.pc = "rerank" /\ ~search'.rerank.reachable =>
       /\ search'.pc = "returned"
       /\ Len(search'.returned) <= search.k
       /\ Len(search'.returned) =
            (IF search.k < Len(search.results) THEN search.k ELSE Len(search.results))
       /\ \A i \in 1..Len(search'.returned) :
            search'.returned[i] = search.results[i]]_vars

\* Three candidates, the reranker down, fewer than three items asked for.
C17_Witness ==
  /\ search.pc = "returned"
  /\ ~search.rerank.reachable
  /\ Len(search.results) = 3
  /\ Len(Returned) = search.k
  /\ search.k < 3

\* C18: the call returns the first k candidates in the order of their
\* reranker scores, candidates of equal score in their fused order, and never
\* more than k items.
C18_FirstKByScore ==
  search.pc = "returned" /\ search.rerank.reachable =>
    /\ Len(Returned) <= search.k
    /\ Len(Returned) =
         (IF search.k < Len(search.results) THEN search.k ELSE Len(search.results))
    /\ Range(Returned) \subseteq Range(search.results)
    /\ \A i, j \in 1..Len(Returned) : i < j => Before(Returned[i], Returned[j])
    /\ \A c \in Range(search.results) \ Range(Returned) :
         \A r \in Range(Returned) : Before(r, c)

\* Two of three candidates returned, of equal score, the first of the fused
\* ranking left out for its lower score.
C18_Witness ==
  /\ search.pc = "returned"
  /\ search.rerank.reachable
  /\ Len(search.results) = 3
  /\ Len(Returned) = 2
  /\ Score(Returned[1]) = Score(Returned[2])
  /\ 1 \notin Range(Returned)

====
